---------------------------- MODULE Spec2Model ----------------------------
(***************************************************************************)
(* Resume screening (AI Resume Scout): the ATS scoring aggregator, the     *)
(* candidate flow of the Index page (handleScreening) and the HR batch     *)
(* flow of the HR dashboard (evaluateBatchWithATS, handleAnalyze).         *)
(*                                                                         *)
(* Scores are integers in hundredths of a point: 10000 is 100.00 and 7999  *)
(* is 79.99.  A text is the record [id, lead, core, trail]: its content    *)
(* identity, its leading white space, the length from its first to its     *)
(* last non-blank character, and its trailing white space.                 *)
(***************************************************************************)
EXTENDS Integers, Sequences, FiniteSets, TLC

VARIABLES
    \* ---- scoring aggregator (backend, ATSScoringService.evaluate_candidate)
    candidate,      \* the extracted CandidateProfile and black-box sub-scores
    job,            \* the extracted JobProfile
    atsResult,      \* the ATSResult of the evaluation, or NoResult
    rawCandidate,   \* the candidate profile as extracted, fields possibly absent
    rawJob,         \* the job profile as extracted, fields possibly absent
    \* ---- the evaluation server as the frontend sees it
    scoreOf,        \* file -> ats_score the server computes for it (first job description)
    \* ---- Index page (candidate flow)
    resumeFile, jobDescFile, jobDescText, isAnalyzing,
    screening,      \* position of handleScreening: [pc, file, text, jdFile, jd]
    location,       \* router location: [path, state]
    toast,          \* last toast of the Index page
    jdReads,        \* job-description files whose text() is in flight
    sent,           \* ghost: requests POSTed by the current handleScreening run
    outcome,        \* ghost: how the last handleScreening run ended
    history,        \* ghost: completed single evaluations [file, jd, result]
    runs,           \* number of handleScreening runs started (also Date.now())
    \* ---- HR dashboard (batch flow)
    extractedJobDescription, resumes, loading, results,
    batch,          \* position of handleAnalyze: [pc, files, jd, next, atsResults]
    hrToast,        \* last toast of handleAnalyze
    submitted,      \* ghost: files POSTed by the current batch, in order
    failed,         \* ghost: files of the current batch whose evaluation failed
    analyses,       \* number of handleAnalyze runs started
    \* ---- database (supabase migrations, row-level security)
    user_roles,     \* rows of public.user_roles: [user_id, role]
    job_descriptions, \* rows of public.job_descriptions: [id, hr_id]
    db_resumes,     \* rows of public.resumes: [id, candidate_id]
    screening_results, \* rows of public.screening_results: [id, candidate_id, hr_id]
    selected,       \* the last select: [uid, table, rows]
    \* ---- results page (pages/Results.tsx)
    definition,     \* which Results component of Results.tsx is built: 1 or 2
    component,      \* its React state: [mounted, dirty, rerunScore, lastScore]
    sessionStorage, \* [atsResultBackup, lastAtsResult]
    historyState,   \* window.history.state: "router" (holds location.state) or "raw"
    timers,         \* pending setTimeout callbacks: "redirect", "reload"
    reloading,      \* window.location.reload() was called, the page is about to unload
    view,           \* what Results rendered last: [kind, score, status, badge, wording]
    visits,         \* number of user navigations in the behaviour
    \* ---- file validation (FileUpload.tsx, Dashboard.validateResumeFiles)
    invalidFiles,   \* ghost: names of the files validation has turned away
    \* ---- HR dashboard, job-description extraction (Dashboard.extractJobDetails)
    hrJobDescFile,  \* the job-description file the dashboard holds
    extractedJobTitle, isExtracting,
    extractions,    \* files whose analyzeJobDescriptionFile call is in flight
    \* ---- authentication (HybridAuthContext.tsx, ProtectedRoute.tsx, Login.tsx)
    user, userRole, isOfflineMode,
    authLoading,    \* the provider's `loading`
    subscribed,     \* onAuthStateChange has registered the provider's callback
    authSession,    \* the account the Supabase client holds a session for, "" if none
    pendingCalls,   \* Supabase calls of the provider that have not settled yet
    pathname,       \* the route the browser is on
    shown,          \* what that route rendered last: [kind, to]
    redirects,      \* redirects since the user last navigated
    lastSignIn,     \* ghost: the signIn call that has just returned: [branch, email, error]
    lastFetch       \* ghost: the fetchUserRole run that has just ended: its calls, its decision

scoringVars == <<candidate, job, atsResult>>
rawVars == <<rawCandidate, rawJob>>
indexVars == <<resumeFile, jobDescFile, jobDescText, isAnalyzing, screening,
               location, toast, jdReads, sent, outcome, history, runs>>
hrVars == <<extractedJobDescription, resumes, loading, results, batch,
            hrToast, submitted, failed, analyses>>
dbVars == <<user_roles, job_descriptions, db_resumes, screening_results, selected>>
resultsVars == <<definition, component, sessionStorage, historyState, timers,
                 reloading, view, visits>>
extractVars == <<hrJobDescFile, extractedJobTitle, isExtracting, extractions>>
authVars == <<user, userRole, isOfflineMode, authLoading, subscribed, authSession,
              pendingCalls, pathname, shown, redirects, lastSignIn, lastFetch>>
vars == <<scoringVars, rawVars, scoreOf, indexVars, hrVars, dbVars, resultsVars,
          invalidFiles, extractVars, authVars>>

NoResult == [none |-> TRUE]
Null == "null"

(***************************************************************************)
(* Bounds of the model.                                                    *)
(***************************************************************************)
MaxSkills == 2      \* longest job.mandatory_skills list
MaxBatch == 2       \* most resumes in one batch
MaxRuns == 2        \* most handleScreening runs in a behaviour
MaxAnalyses == 1    \* most handleAnalyze runs in a behaviour
MaxRows == 1        \* most rows in one table
MaxVisits == 3      \* most user navigations around the results page

(***************************************************************************)
(* Program constants.                                                      *)
(***************************************************************************)
ShortlistThreshold == 80
BorderlineThreshold == 50
MinJobDescriptionLength == 50

Min(a, b) == IF a < b THEN a ELSE b
Max(a, b) == IF a > b THEN a ELSE b
Range(s) == {s[i] : i \in 1..Len(s)}
SeqsUpTo(S, n) == UNION {[1..k -> S] : k \in 0..n}

\* Math.round of a score held in hundredths of a point, in whole points.
MathRound(score) == (score + 50) \div 100

(***************************************************************************)
(*                         SCORING AGGREGATOR                              *)
(***************************************************************************)

\* Case folding of the skill names of the model (String.lower()).
Lower(s) ==
    CASE s = "React" -> "react"
      [] s = "TypeScript" -> "typescript"
      [] s = "ML" -> "ml"
      [] s = "Machine Learning" -> "machine learning"
      [] s = "JavaScript" -> "javascript"
      [] OTHER -> s

\* The fixed synonym table, applied to a case-folded name.
Synonym(s) == IF s = "ml" THEN "machine learning" ELSE s

Canon(s) == Synonym(Lower(s))

\* A mandatory skill is present when some candidate skill (technical or
\* soft) equals it case-insensitively or through the synonym table.
SkillPresent(skill, cand) ==
    \E c \in cand.technical_skills \cup cand.soft_skills : Canon(c) = Canon(skill)

MatchedSkills(cand, j) ==
    SelectSeq(j.mandatory_skills, LAMBDA s : SkillPresent(s, cand))

MissingSkillsBroken(cand, j) ==
    SelectSeq(j.mandatory_skills,
              LAMBDA s : ~(\E c \in cand.technical_skills : c = s))

\* Missing skills: the job requirement list minus the matched ones, in the
\* order of the job profile.
MissingSkills(cand, j) ==
    SelectSeq(j.mandatory_skills, LAMBDA s : ~SkillPresent(s, cand))

\* No convention for an empty requirement list: none matched of max(1, 0).
SkillMatchScoreBroken(cand, j) ==
    (Len(MatchedSkills(cand, j)) * 10000) \div Max(1, Len(j.mandatory_skills))

\* Skill match score; an empty requirement list gives full credit.
SkillMatchScore(cand, j) ==
    IF Len(j.mandatory_skills) = 0 THEN 10000
    ELSE (Len(MatchedSkills(cand, j)) * 10000) \div Max(1, Len(j.mandatory_skills))

\* Relevant experience over the requirement, with no cap.
ExperienceScoreBroken(cand, j) ==
    (cand.relevant_experience * 10000) \div Max(1, j.required_experience)

\* Experience score, capped at 100.
ExperienceScore(cand, j) ==
    Min(10000, (cand.relevant_experience * 10000) \div Max(1, j.required_experience))

\* The score breakdown (ATSScoreBreakdown).  Role fit, education,
\* certifications, keyword and tech-stack scores come from the external
\* extraction and are inputs of the aggregator here.
ScoreBreakdown(cand, j) ==
    [skill_match_score |-> SkillMatchScore(cand, j),
     experience_score |-> ExperienceScore(cand, j),
     role_fit_score |-> cand.role_fit,
     education_match_score |-> cand.education_match,
     certifications_score |-> cand.certifications_match,
     keyword_match_score |-> cand.keyword_match,
     tech_stack_match_score |-> cand.tech_stack_match,
     matched_skills |-> MatchedSkills(cand, j),
     missing_skills |-> MissingSkills(cand, j)]

\* Keywords/Tools sub-score: the average of the keyword and tool scores.
KeywordsToolsScore(b) == (b.keyword_match_score + b.tech_stack_match_score) \div 2

WeightsBroken ==
    [skills |-> 40, experience |-> 25, role_fit |-> 15, education |-> 10,
     certifications |-> 5, keywords_tools |-> 10]

\* The fixed weight table, in percent.
Weights ==
    [skills |-> 40, experience |-> 25, role_fit |-> 15, education |-> 10,
     certifications |-> 5, keywords_tools |-> 5]

\* Sum of sub-score * weight, in 1/10000 of a point.
WeightedSum(b) ==
      Weights.skills * b.skill_match_score
    + Weights.experience * b.experience_score
    + Weights.role_fit * b.role_fit_score
    + Weights.education * b.education_match_score
    + Weights.certifications * b.certifications_score
    + Weights.keywords_tools * KeywordsToolsScore(b)

\* Final score: the weighted sum rounded to one decimal place and clamped
\* to [0, 100].
FinalScore(b) ==
    Max(0, Min(10000, 10 * ((WeightedSum(b) + 500) \div 1000)))

StatusOfBroken(score) ==
    IF score > ShortlistThreshold * 100 THEN "SHORTLISTED"
    ELSE IF score >= BorderlineThreshold * 100 THEN "BORDERLINE"
    ELSE "NOT_SHORTLISTED"

\* Status band of a final score.
StatusOf(score) ==
    IF score >= ShortlistThreshold * 100 THEN "SHORTLISTED"
    ELSE IF score >= BorderlineThreshold * 100 THEN "BORDERLINE"
    ELSE "NOT_SHORTLISTED"

\* score(candidate, job) -> ATSResult
Evaluate(cand, j) ==
    LET b == ScoreBreakdown(cand, j)
        s == FinalScore(b)
    IN [ats_score |-> s, status |-> StatusOf(s), score_breakdown |-> b]

\* getScoreColor of the ATS evaluation page; score is in points * 100.
getScoreColor(score) ==
    IF score >= 80 * 100 THEN "text-green-600"
    ELSE IF score >= 50 * 100 THEN "text-yellow-600"
    ELSE "text-red-600"

JobSkillNames == {"React", "TypeScript", "ML"}
TechnicalSkillNames == {"react", "JavaScript"}
SoftSkillNames == {"Machine Learning"}

CandidateProfiles ==
    [technical_skills : SUBSET TechnicalSkillNames,
     soft_skills : SUBSET SoftSkillNames,
     relevant_experience : {0, 4, 8},
     role_fit : {0, 3333, 10000},
     education_match : {0, 5000, 10000},
     certifications_match : {0, 10000},
     keyword_match : {0, 10000},
     tech_stack_match : {5000, 10000}]

JobProfiles ==
    [mandatory_skills : SeqsUpTo(JobSkillNames, MaxSkills),
     required_experience : {0, 5}]

\* The scoring engine touches no page state.
ScoringFrame ==
    UNCHANGED <<scoreOf, indexVars, hrVars, dbVars, resultsVars, invalidFiles,
                extractVars, authVars>>

ScoringIdle ==
    /\ candidate = Null /\ job = Null /\ atsResult = NoResult
    /\ rawCandidate = Null /\ rawJob = Null

ScoringInit ==
    /\ candidate \in CandidateProfiles
    /\ job \in JobProfiles
    /\ atsResult = NoResult
    /\ rawCandidate = Null /\ rawJob = Null

\* One evaluation request: the aggregator is applied to the two profiles.
EvaluateCandidate ==
    /\ ScoringFrame
    /\ atsResult = NoResult
    /\ atsResult' = Evaluate(candidate, job)
    /\ UNCHANGED <<candidate, job, rawVars>>

\* The result is discarded; the next evaluation computes afresh.
DiscardResult ==
    /\ ScoringFrame
    /\ atsResult # NoResult
    /\ atsResult' = NoResult
    /\ UNCHANGED <<candidate, job, rawVars>>

\* An optional field: absent (<<>>) or present with a value (<<v>>).
Optional(S) == {<<>>} \cup {<<v>> : v \in S}

\* Absent numeric fields are taken as 0.
NumberOrZero(field) == IF Len(field) = 0 THEN 0 ELSE field[1]

\* Absent collections are taken as empty.
SetOrEmpty(field) == IF Len(field) = 0 THEN {} ELSE field[1]
ListOrEmpty(field) == IF Len(field) = 0 THEN <<>> ELSE field[1]

\* The candidate profile the aggregator works on.
CandidateWithDefaults(raw) ==
    [technical_skills |-> SetOrEmpty(raw.technical_skills),
     soft_skills |-> SetOrEmpty(raw.soft_skills),
     relevant_experience |-> NumberOrZero(raw.relevant_experience),
     role_fit |-> NumberOrZero(raw.role_fit),
     education_match |-> NumberOrZero(raw.education_match),
     certifications_match |-> NumberOrZero(raw.certifications_match),
     keyword_match |-> NumberOrZero(raw.keyword_match),
     tech_stack_match |-> NumberOrZero(raw.tech_stack_match)]

\* The job profile the aggregator works on.
JobWithDefaults(raw) ==
    [mandatory_skills |-> ListOrEmpty(raw.mandatory_skills),
     required_experience |-> NumberOrZero(raw.required_experience)]

RawCandidateProfiles ==
    [technical_skills : Optional({{}, {"react", "JavaScript"}}),
     soft_skills : Optional({{"Machine Learning"}}),
     relevant_experience : Optional({0, 4, 8}),
     role_fit : Optional({10000}),
     education_match : Optional({5000}),
     certifications_match : Optional({10000}),
     keyword_match : Optional({10000}),
     tech_stack_match : Optional({5000})]

RawJobProfiles ==
    [mandatory_skills : Optional(SeqsUpTo(JobSkillNames, MaxSkills)),
     required_experience : Optional({0, 5})]

\* One evaluation request on profiles as extracted: defaults first, then
\* the aggregator.
EvaluateRawProfiles ==
    /\ ScoringFrame
    /\ atsResult = NoResult
    /\ candidate' = CandidateWithDefaults(rawCandidate)
    /\ job' = JobWithDefaults(rawJob)
    /\ atsResult' = Evaluate(candidate', job')
    /\ UNCHANGED rawVars


(***************************************************************************)
(*                  FILES, TEXTS AND THE EVALUATION API                    *)
(***************************************************************************)

Text(id, lead, core, trail) == [id |-> id, lead |-> lead, core |-> core, trail |-> trail]
EmptyText == Text("", 0, 0, 0)

\* String.length
Length(t) == t.lead + t.core + t.trail

\* String.trim(): leading and trailing white space removed; a blank text
\* becomes the empty string.
Trim(t) == IF t.core = 0 THEN EmptyText ELSE Text(t.id, 0, t.core, 0)

\* '.' + file.name.split('.').pop()?.toLowerCase()
FileExtension(name) ==
    CASE name = "a.pdf" -> ".pdf"
      [] name = "b.DOCX" -> ".docx"
      [] name = "c.txt" -> ".txt"
      [] name = "d.exe" -> ".exe"
      [] OTHER -> "." \o name

AllowedExtensions == {".pdf", ".doc", ".docx", ".txt"}

\* FileUpload.validateFileType
validateFileType(name) == FileExtension(name) \in AllowedExtensions

UploadableFiles == {"a.pdf", "b.DOCX", "c.txt", "d.exe"}
ResumeFiles == {f \in UploadableFiles : validateFileType(f)}

\* The score the evaluation service computes for a resume against a job
\* description: a function of the two alone.
ServerScore(file, jd) ==
    IF jd.id = "jdA" THEN scoreOf[file] ELSE 10000 - scoreOf[file]

\* The ATSResult the service answers with (POST /api/ats/evaluate-resume).
ServerEvaluate(file, jd) ==
    LET s == ServerScore(file, jd)
    IN [ats_score |-> s, status |-> StatusOf(s)]

NetworkOutcomes == {"ok", "http_error", "unreachable"}

\* ApiClient.evaluateResumeWithATS: resolves with the response body when the
\* response is OK and rejects with an Error otherwise.
evaluateResumeWithATS(file, jd, net) ==
    IF net = "ok"
    THEN [ok |-> TRUE, value |-> ServerEvaluate(file, jd), error |-> ""]
    ELSE [ok |-> FALSE, value |-> NoResult,
          error |-> IF net = "unreachable" THEN "Unable to connect to server"
                    ELSE "HTTP error"]

ScoreTables ==
    {[f \in ResumeFiles |-> CASE f = "b.DOCX" -> 7960
                              [] f = "a.pdf" -> 8040
                              [] OTHER -> 9000],
     [f \in ResumeFiles |-> CASE f = "a.pdf" -> 8040
                              [] f = "b.DOCX" -> 4990
                              [] OTHER -> 8040]}

(***************************************************************************)
(*                     INDEX PAGE: THE CANDIDATE FLOW                      *)
(***************************************************************************)

NoJobDescFile == [name |-> "", readable |-> FALSE, text |-> EmptyText]

JobDescFiles ==
    {[name |-> "jd1.txt", readable |-> TRUE,
      text |-> Text("jdA", 1, MinJobDescriptionLength - 1, 0)],
     [name |-> "jd2.txt", readable |-> TRUE,
      text |-> Text("jdB", 0, MinJobDescriptionLength - 1, 0)],
     [name |-> "jd3.pdf", readable |-> FALSE, text |-> EmptyText]}

PastedTexts ==
    {EmptyText,
     Text("", 2, 0, 0),
     Text("jdA", 1, MinJobDescriptionLength - 1, 0),
     Text("jdA", 0, MinJobDescriptionLength, 0),
     Text("jdB", 1, MinJobDescriptionLength, 1)}

UploadIds == {"u1", "u2"}

NoNavigationState == [atsResult |-> NoResult, timestamp |-> 0, uploadId |-> ""]

ScreeningIdle ==
    [pc |-> "idle", file |-> Null, text |-> EmptyText, jdFile |-> NoJobDescFile,
     jd |-> EmptyText]

IndexMounted == location.path = "/app"

\* The route of the HR dashboard.
DashboardMounted == location.path = "/hr/dashboard"

uniqueNavigationStateBroken(result, now, uploadId) ==
    [atsResult |-> [ats_score |-> result.ats_score, status |-> result.status,
                    uploadId |-> uploadId],
     timestamp |-> now, uploadId |-> uploadId]

\* navigationState / uniqueNavigationState of handleScreening: the ATS
\* result as received, with a timestamp and a random upload id beside it.
uniqueNavigationState(result, now, uploadId) ==
    [atsResult |-> result, timestamp |-> now, uploadId |-> uploadId]

\* A page of the frontend touches neither the scoring engine, the database
\* nor the results page.
PageFrame == UNCHANGED <<scoringVars, rawVars, scoreOf, dbVars, resultsVars>>

\* The Index page touches neither the scoring engine nor the HR dashboard.
IndexFrame == PageFrame /\ UNCHANGED <<hrVars, invalidFiles, extractVars, authVars>>

IndexIdle ==
    /\ resumeFile = Null
    /\ jobDescFile = NoJobDescFile
    /\ jobDescText = EmptyText
    /\ isAnalyzing = FALSE
    /\ screening = ScreeningIdle
    /\ location = [path |-> "/app", state |-> NoNavigationState]
    /\ toast = ""
    /\ jdReads = {}
    /\ sent = {}
    /\ outcome = ""
    /\ history = <<>>
    /\ runs = 0

\* FileUpload "Upload Your Resume": onFileChange = setResumeFile, called
\* only for a file that passes validateFileType.
SelectResume(file) ==
    /\ PageFrame /\ UNCHANGED <<hrVars, extractVars, authVars>>
    /\ IndexMounted
    /\ resumeFile' = IF validateFileType(file) THEN file ELSE resumeFile
    /\ invalidFiles' = IF validateFileType(file) THEN invalidFiles
                       ELSE invalidFiles \cup {file}
    /\ UNCHANGED <<jobDescFile, jobDescText, isAnalyzing, screening, location,
                   toast, jdReads, sent, outcome, history, runs>>

\* FileUpload.handleClearFile of the resume: onFileChange(null).
ClearResume ==
    /\ IndexFrame
    /\ IndexMounted
    /\ resumeFile # Null
    /\ resumeFile' = Null
    /\ UNCHANGED <<jobDescFile, jobDescText, isAnalyzing, screening, location,
                   toast, jdReads, sent, outcome, history, runs>>

\* Index.handleJobDescFileChange up to its await: setJobDescFile(file) and
\* file.text() started.
SelectJobDescFile(file) ==
    /\ IndexFrame
    /\ IndexMounted
    /\ jobDescFile' = file
    /\ jdReads' = jdReads \cup {file}
    /\ UNCHANGED <<resumeFile, jobDescText, isAnalyzing, screening, location,
                   toast, sent, outcome, history, runs>>

\* Index.handleJobDescFileChange after its await: setJobDescText(text), or
\* the error toast when the file cannot be read.
JobDescFileLoaded(file) ==
    /\ IndexFrame
    /\ IndexMounted
    /\ file \in jdReads
    /\ jdReads' = jdReads \ {file}
    /\ IF file.readable
       THEN jobDescText' = file.text /\ toast' = "jd_file_loaded"
       ELSE jobDescText' = jobDescText /\ toast' = "jd_file_read_failed"
    /\ UNCHANGED <<resumeFile, jobDescFile, isAnalyzing, screening, location,
                   sent, outcome, history, runs>>

\* onFileChange(null) of the job-description FileUpload.
ClearJobDescFile ==
    /\ IndexFrame
    /\ IndexMounted
    /\ jobDescFile # NoJobDescFile
    /\ jobDescFile' = NoJobDescFile
    /\ jobDescText' = EmptyText
    /\ UNCHANGED <<resumeFile, isAnalyzing, screening, location, toast, jdReads,
                   sent, outcome, history, runs>>

\* The textarea's onChange (disabled while analyzing).
TypeJobDescText(t) ==
    /\ IndexFrame
    /\ IndexMounted
    /\ ~isAnalyzing
    /\ jobDescText' = t
    /\ UNCHANGED <<resumeFile, jobDescFile, isAnalyzing, screening, location,
                   toast, jdReads, sent, outcome, history, runs>>

\* Index.handleReset (the button is disabled while analyzing or when there
\* is nothing to reset).
handleReset ==
    /\ IndexFrame
    /\ IndexMounted
    /\ ~isAnalyzing
    /\ resumeFile # Null \/ jobDescFile # NoJobDescFile \/ Length(jobDescText) > 0
    /\ resumeFile' = Null
    /\ jobDescFile' = NoJobDescFile
    /\ jobDescText' = EmptyText
    /\ isAnalyzing' = FALSE
    /\ toast' = "form_reset"
    /\ UNCHANGED <<screening, location, jdReads, sent, outcome, history, runs>>

jobDescriptionLongEnoughBroken(finalJobDescription) ==
    ~(Length(finalJobDescription) < MinJobDescriptionLength - 1)

\* The length test of handleScreening: it throws "Job description must be at
\* least 50 characters long" when finalJobDescription.length < 50.
jobDescriptionLongEnough(finalJobDescription) ==
    ~(Length(finalJobDescription) < MinJobDescriptionLength)

\* handleScreening from the length test to the POST: either the validation
\* error (caught: toast, then finally setIsAnalyzing(false)) or the request
\* is sent and the handler awaits the response.
ScreeningSubmit(file, text, jdFile, finalJobDescription) ==
    IF jobDescriptionLongEnough(finalJobDescription)
    THEN /\ screening' = [pc |-> "calling", file |-> file, text |-> text,
                          jdFile |-> jdFile, jd |-> finalJobDescription]
         /\ sent' = {[file |-> file, jd |-> finalJobDescription]}
         /\ isAnalyzing' = TRUE
         /\ outcome' = "running"
         /\ UNCHANGED toast
    ELSE /\ screening' = ScreeningIdle
         /\ sent' = {}
         /\ isAnalyzing' = FALSE
         /\ outcome' = "validation_error"
         /\ toast' = "jd_too_short"

\* Index.handleScreening, from the click to its first await.
handleScreening ==
    /\ IndexFrame
    /\ IndexMounted
    /\ ~isAnalyzing
    /\ screening.pc = "idle"
    /\ runs < MaxRuns
    /\ runs' = runs + 1
    /\ LET hasJobDescription ==
               Length(Trim(jobDescText)) > 0 \/ jobDescFile # NoJobDescFile
           finalJobDescription == Trim(jobDescText)
       IN IF resumeFile = Null \/ ~hasJobDescription
          THEN /\ toast' = "missing_input"
               /\ outcome' = "validation_error"
               /\ sent' = {}
               /\ screening' = ScreeningIdle
               /\ UNCHANGED isAnalyzing
          ELSE IF Length(finalJobDescription) = 0 /\ jobDescFile # NoJobDescFile
          THEN /\ screening' = [pc |-> "reading", file |-> resumeFile,
                                text |-> jobDescText, jdFile |-> jobDescFile,
                                jd |-> EmptyText]
               /\ isAnalyzing' = TRUE
               /\ sent' = {}
               /\ outcome' = "running"
               /\ UNCHANGED toast
          ELSE ScreeningSubmit(resumeFile, jobDescText, jobDescFile,
                               finalJobDescription)
    /\ UNCHANGED <<resumeFile, jobDescFile, jobDescText, location, jdReads, history>>

\* handleScreening after `await jobDescFile.text()`: the text of the file as
\* read, or "Failed to read job description file".
ScreeningFileRead ==
    /\ IndexFrame
    /\ screening.pc = "reading"
    /\ IF screening.jdFile.readable
       THEN ScreeningSubmit(screening.file, screening.text, screening.jdFile,
                            screening.jdFile.text)
       ELSE /\ screening' = ScreeningIdle
            /\ sent' = {}
            /\ isAnalyzing' = FALSE
            /\ outcome' = "validation_error"
            /\ toast' = "jd_file_unreadable"
    /\ UNCHANGED <<resumeFile, jobDescFile, jobDescText, location, jdReads,
                   history, runs>>

\* handleScreening after `await apiClient.evaluateResumeWithATS(...)`: on
\* success navigate("/results", {state}) and the form is cleared (the Index
\* page unmounts); on failure the error toast.  finally: setIsAnalyzing(false).
ScreeningResponse(net, uploadId) ==
    /\ IndexFrame
    /\ screening.pc = "calling"
    /\ LET r == evaluateResumeWithATS(screening.file, screening.jd, net)
       IN IF r.ok
          THEN /\ location' = [path |-> "/results",
                               state |-> uniqueNavigationState(r.value, runs, uploadId)]
               /\ history' = Append(history,
                                    [file |-> screening.file, jd |-> screening.jd,
                                     result |-> location'.state.atsResult])
               /\ resumeFile' = Null
               /\ jobDescFile' = NoJobDescFile
               /\ jobDescText' = EmptyText
               /\ jdReads' = {}
               /\ outcome' = "navigated"
               /\ UNCHANGED toast
          ELSE /\ toast' = "api_error"
               /\ outcome' = "api_error"
               /\ UNCHANGED <<location, history, resumeFile, jobDescFile,
                              jobDescText, jdReads>>
    /\ screening' = ScreeningIdle
    /\ isAnalyzing' = FALSE
    /\ UNCHANGED <<sent, runs>>

\* Results.handleNewScreening: navigate("/app", { replace: true }); the
\* Index page mounts afresh.
handleNewScreening ==
    /\ IndexFrame
    /\ location.path = "/results"
    /\ location' = [path |-> "/app", state |-> NoNavigationState]
    /\ resumeFile' = Null
    /\ jobDescFile' = NoJobDescFile
    /\ jobDescText' = EmptyText
    /\ isAnalyzing' = FALSE
    /\ screening' = ScreeningIdle
    /\ toast' = ""
    /\ jdReads' = {}
    /\ sent' = {}
    /\ outcome' = ""
    /\ UNCHANGED <<history, runs>>

(***************************************************************************)
(*                    RESULTS PAGE (pages/Results.tsx)                     *)
(*                                                                         *)
(* Results.tsx holds two Results components.  The first recovers lost      *)
(* navigation state from sessionStorage and forces page reloads; the       *)
(* second reads location.state only.  `definition` says which one the      *)
(* build mounts at /results.                                               *)
(***************************************************************************)

ResultsDefinitions == {1, 2}

\* sessionStorage 'atsResultBackup': absent, unparseable, or the navigation
\* state as preserved; fresh while less than five minutes old.
NoBackup == [kind |-> "none", data |-> NoNavigationState, fresh |-> FALSE]
GarbageBackup == [kind |-> "garbage", data |-> NoNavigationState, fresh |-> FALSE]
Backup(data, fresh) == [kind |-> "data", data |-> data, fresh |-> fresh]

\* sessionStorage 'lastAtsResult': absent, or JSON.stringify of an atsResult.
NoLastResult == [set |-> FALSE, json |-> NoResult]
Stringify(result) == [set |-> TRUE, json |-> result]

Unmounted ==
    [mounted |-> FALSE, dirty |-> FALSE, rerunScore |-> FALSE, lastScore |-> <<>>]

NoView == [kind |-> "none", score |-> <<>>, status |-> "", badge |-> "",
           wording |-> ""]

\* The "No Analysis Data Found" view of the render guard.
NoDataView == [kind |-> "no_data", score |-> <<>>, status |-> "", badge |-> "",
               wording |-> ""]

ResultsIdle ==
    /\ definition = 1
    /\ component = Unmounted
    /\ sessionStorage = [atsResultBackup |-> NoBackup, lastAtsResult |-> NoLastResult]
    /\ historyState = "router"
    /\ timers = {}
    /\ reloading = FALSE
    /\ view = NoView
    /\ visits = 0

\* What the form of the Index page holds; the results page leaves it alone.
indexFormVars == <<resumeFile, jobDescFile, jobDescText, isAnalyzing, screening,
                   jdReads, sent, outcome, history, runs>>

ResultsFrame == UNCHANGED <<scoringVars, rawVars, scoreOf, indexFormVars, hrVars,
                            dbVars, invalidFiles, extractVars, authVars>>

\* A response body without a numeric ats_score.
MalformedResult == [status |-> "SHORTLISTED"]

\* typeof atsResult.ats_score === 'number'
ScoreIsNumber(result) == "ats_score" \in DOMAIN result

\* A recovery that does not look at the age of the backup.
BackupRecoveredBroken ==
    /\ definition = 1
    /\ location.state = NoNavigationState
    /\ sessionStorage.atsResultBackup.kind = "data"

\* The backup is used: first definition only, navigation state lost, backup
\* parseable and less than five minutes old.
BackupRecovered ==
    /\ definition = 1
    /\ location.state = NoNavigationState
    /\ sessionStorage.atsResultBackup.kind = "data"
    /\ sessionStorage.atsResultBackup.fresh

\* resultData of the render: location.state, or the recovered backup.
resultData ==
    IF BackupRecovered THEN sessionStorage.atsResultBackup.data ELSE location.state

\* The backup after the recovery attempt: a stale or unparseable one is
\* removed.
BackupAfterRecovery ==
    IF /\ definition = 1
       /\ location.state = NoNavigationState
       /\ sessionStorage.atsResultBackup.kind # "none"
       /\ ~BackupRecovered
    THEN NoBackup
    ELSE sessionStorage.atsResultBackup

\* The condition of the validation effect and of the render guard, negated.
ValidResultData(rd) ==
    /\ rd # NoNavigationState
    /\ rd.atsResult # NoResult
    /\ ScoreIsNumber(rd.atsResult)

\* ToBoolean of a string.
ToBoolean(str) == str # ""

\* realStatus as the StatusBadge and the wording conditions see it: a
\* boolean in the first definition, the status string in the second.
realStatus(result) ==
    IF definition = 1 THEN result.status = "SHORTLISTED"
    ELSE ToBoolean(result.status)

StatusBadge(shortlisted) ==
    IF shortlisted THEN "Shortlisted" ELSE "Needs Improvement"

\* What the component returns for resultData rd.
RenderedView(rd) ==
    IF ~ValidResultData(rd) THEN NoDataView
    ELSE [kind |-> "result",
          score |-> <<MathRound(rd.atsResult.ats_score)>>,
          status |-> rd.atsResult.status,
          badge |-> StatusBadge(realStatus(rd.atsResult)),
          wording |-> IF realStatus(rd.atsResult) THEN "success" ELSE "improvement"]

\* A page load: component state and timers are gone, sessionStorage stays,
\* and the router reads location.state back from window.history.state.
PageLoad(path) ==
    /\ location' = [path |-> path,
                    state |-> IF historyState = "router" /\ path = location.path
                              THEN location.state ELSE NoNavigationState]
    /\ component' = Unmounted
    /\ timers' = {}
    /\ reloading' = FALSE

\* handleScreening's navigate("/results", {replace, state}) as the results
\* page receives it.
EnterResults(result, uploadId) ==
    /\ ResultsFrame
    /\ location.path = "/app"
    /\ ~reloading
    /\ visits < MaxVisits
    /\ visits' = visits + 1
    /\ location' = [path |-> "/results",
                    state |-> uniqueNavigationState(result, visits', uploadId)]
    /\ historyState' = "router"
    /\ component' = Unmounted
    /\ UNCHANGED <<definition, sessionStorage, timers, reloading, view, toast>>

\* The user opens /results from the address bar.
OpenResultsUrl ==
    /\ ResultsFrame
    /\ location.path # "/results"
    /\ visits < MaxVisits
    /\ visits' = visits + 1
    /\ location' = [path |-> "/results", state |-> NoNavigationState]
    /\ historyState' = "router"
    /\ component' = Unmounted
    /\ timers' = {}
    /\ reloading' = FALSE
    /\ UNCHANGED <<definition, sessionStorage, view, toast>>

\* The user opens the analysis page /app: "New Screening" on the results
\* page, or the link of the home page.
OpenIndex ==
    /\ ResultsFrame
    /\ location.path # "/app"
    /\ ~reloading
    /\ visits < MaxVisits
    /\ visits' = visits + 1
    /\ location' = [path |-> "/app", state |-> NoNavigationState]
    /\ historyState' = "router"
    /\ component' = Unmounted
    /\ UNCHANGED <<definition, sessionStorage, timers, reloading, view, toast>>

\* The user refreshes the browser on /results.
BrowserRefresh ==
    /\ ResultsFrame
    /\ location.path = "/results"
    /\ visits < MaxVisits
    /\ visits' = visits + 1
    /\ PageLoad(location.path)
    /\ UNCHANGED <<definition, sessionStorage, historyState, view, toast>>

\* A render is due: the component has not rendered since it was mounted, or
\* its state was updated.
RenderPending ==
    location.path = "/results" /\ (~component.mounted \/ component.dirty)

\* Five minutes pass since the backup was preserved; renders, timers of at
\* most half a second and reloads do not wait that long.
BackupAges ==
    /\ ResultsFrame
    /\ ~RenderPending /\ timers = {} /\ ~reloading
    /\ sessionStorage.atsResultBackup.kind = "data"
    /\ sessionStorage.atsResultBackup.fresh
    /\ sessionStorage' = [sessionStorage EXCEPT !.atsResultBackup.fresh = FALSE]
    /\ UNCHANGED <<definition, component, historyState, timers, reloading, view,
                   visits, location, toast>>

\* One render of the first Results definition with the effects it runs:
\* the same-data effect, the same-score effect, the validation effect.
RenderFirstDefinition ==
    LET rd == resultData
        valid == ValidResultData(rd)
        first == ~component.mounted
        \* resultData parsed from the backup is a new object at every render
        changed == first \/ BackupRecovered
        \* effect [resultData]: force a refresh if the same data is detected
        run1 == changed /\ rd # NoNavigationState
        sameData == /\ run1
                    /\ rd.atsResult # NoResult
                    /\ sessionStorage.lastAtsResult = Stringify(rd.atsResult)
                    /\ ToBoolean(rd.uploadId)
        \* effect [ats_score, uploadId, lastScore]
        run2 == first \/ component.rerunScore
        score == IF ScoreIsNumber(rd.atsResult) /\ rd.atsResult.ats_score # 0
                 THEN <<rd.atsResult.ats_score>> ELSE <<>>
        sameScore == /\ run2
                     /\ score # <<>>
                     /\ component.lastScore = score
                     /\ ToBoolean(rd.uploadId)
        lastScore == IF run2 /\ score # <<>> THEN score ELSE component.lastScore
        \* effect [resultData, navigate, location]: strict validation
        run3 == changed
    IN  /\ view' = RenderedView(rd)
        /\ sessionStorage' =
               [atsResultBackup |-> IF run3 /\ valid THEN Backup(rd, TRUE)
                                    ELSE BackupAfterRecovery,
                lastAtsResult |-> IF ~run1 THEN sessionStorage.lastAtsResult
                                  ELSE IF sameData THEN NoLastResult
                                  ELSE Stringify(rd.atsResult)]
        /\ reloading' = (reloading \/ sameData)
        /\ timers' = timers \cup (IF sameScore THEN {"reload"} ELSE {})
                            \cup (IF run3 /\ ~valid THEN {"redirect"} ELSE {})
        /\ toast' = IF run3 /\ ~valid THEN "no_results" ELSE toast
        /\ historyState' = IF run3 /\ valid THEN "raw" ELSE historyState
        /\ component' = [mounted |-> TRUE,
                         dirty |-> (lastScore # component.lastScore) \/ (run3 /\ valid),
                         rerunScore |-> lastScore # component.lastScore,
                         lastScore |-> lastScore]
        /\ UNCHANGED location

\* One render of the second Results definition with its validation effect.
RenderSecondDefinition ==
    LET rd == resultData
        valid == ValidResultData(rd)
        first == ~component.mounted
    IN  /\ view' = RenderedView(rd)
        /\ IF first /\ ~valid
           THEN /\ toast' = "no_results"
                /\ location' = [path |-> "/", state |-> NoNavigationState]
                /\ historyState' = "router"
                /\ component' = Unmounted
           ELSE /\ component' = [component EXCEPT !.mounted = TRUE,
                                                  !.dirty = first]
                /\ UNCHANGED <<toast, location, historyState>>
        /\ UNCHANGED <<sessionStorage, reloading, timers>>

\* React renders Results: at mount, and after every state update.
RenderResults ==
    /\ ResultsFrame
    /\ RenderPending
    /\ IF definition = 1 THEN RenderFirstDefinition ELSE RenderSecondDefinition
    /\ UNCHANGED <<definition, visits>>

\* setTimeout(() => navigate("/", { replace: true }), 500)
RedirectTimer ==
    /\ ResultsFrame
    /\ "redirect" \in timers
    /\ timers' = timers \ {"redirect"}
    /\ location' = [path |-> "/", state |-> NoNavigationState]
    /\ historyState' = "router"
    /\ component' = Unmounted
    /\ UNCHANGED <<definition, sessionStorage, reloading, view, visits, toast>>

\* setTimeout(() => window.location.reload(), 100)
ReloadTimer ==
    /\ ResultsFrame
    /\ "reload" \in timers
    /\ timers' = timers \ {"reload"}
    /\ reloading' = TRUE
    /\ UNCHANGED <<definition, component, sessionStorage, historyState, view,
                   visits, location, toast>>

\* The page reloads because window.location.reload() was called.
ForcedReload ==
    /\ ResultsFrame
    /\ reloading
    /\ PageLoad(location.path)
    /\ UNCHANGED <<definition, sessionStorage, historyState, view, visits, toast>>

\* "Back to Analysis": navigate("/", { replace: true }).
handleBackToAnalysis ==
    /\ ResultsFrame
    /\ location.path = "/results"
    /\ component.mounted
    /\ ~reloading
    /\ visits < MaxVisits
    /\ visits' = visits + 1
    /\ location' = [path |-> "/", state |-> NoNavigationState]
    /\ historyState' = "router"
    /\ component' = Unmounted
    /\ UNCHANGED <<definition, sessionStorage, timers, reloading, view, toast>>

-----------------------------------------------------------------------------
\* The database: tables and row-level-security policies of the migrations.

Users == {"ana", "ben", "cy"}
AppRoles == {"candidate", "hr"}
RowIds == 1..MaxRows

NoSelect == [uid |-> "", table |-> "", rows |-> {}]

DbIdle ==
    /\ user_roles = {}
    /\ job_descriptions = {}
    /\ db_resumes = {}
    /\ screening_results = {}
    /\ selected = NoSelect

\* The database touches no page and no engine state.
DbFrame ==
    UNCHANGED <<scoringVars, rawVars, scoreOf, indexVars, hrVars, resultsVars,
                invalidFiles, extractVars, authVars>>

\* public.has_role(_user_id, _role)
has_role(uid, role) ==
    \E r \in user_roles : r.user_id = uid /\ r.role = role

\* An id no row of the table uses yet (gen_random_uuid()).
FreshId(table) == CHOOSE id \in RowIds : \A r \in table : r.id # id

\* "Users can insert their own roles": with check (auth.uid() = user_id).
InsertUserRole(uid, user_id, role) ==
    /\ DbFrame
    /\ uid = user_id
    /\ [user_id |-> user_id, role |-> role] \notin user_roles
    /\ user_roles' = user_roles \cup {[user_id |-> user_id, role |-> role]}
    /\ UNCHANGED <<job_descriptions, db_resumes, screening_results, selected>>

\* "HR can create job descriptions": with check (has_role(auth.uid(), 'hr')).
InsertJobDescription(uid, hr_id) ==
    /\ DbFrame
    /\ has_role(uid, "hr")
    /\ Cardinality(job_descriptions) < MaxRows
    /\ job_descriptions' = job_descriptions \cup
           {[id |-> FreshId(job_descriptions), hr_id |-> hr_id]}
    /\ UNCHANGED <<user_roles, db_resumes, screening_results, selected>>

\* "Candidates can create their own resumes".
InsertResume(uid, candidate_id) ==
    /\ DbFrame
    /\ has_role(uid, "candidate") /\ uid = candidate_id
    /\ Cardinality(db_resumes) < MaxRows
    /\ db_resumes' = db_resumes \cup
           {[id |-> FreshId(db_resumes), candidate_id |-> candidate_id]}
    /\ UNCHANGED <<user_roles, job_descriptions, screening_results, selected>>

\* "HR can create screening results".
InsertScreeningResult(uid, candidate_id, hr_id) ==
    /\ DbFrame
    /\ has_role(uid, "hr") /\ uid = hr_id
    /\ Cardinality(screening_results) < MaxRows
    /\ screening_results' = screening_results \cup
           {[id |-> FreshId(screening_results), candidate_id |-> candidate_id,
             hr_id |-> hr_id]}
    /\ UNCHANGED <<user_roles, job_descriptions, db_resumes, selected>>

\* The select policy of job_descriptions: "HR can view their own job
\* descriptions".
CanSelectJobDescription(uid, row) ==
    has_role(uid, "hr") /\ uid = row.hr_id

\* The select policies of resumes: "Candidates can view their own resumes"
\* or "HR can view all resumes".
CanSelectResume(uid, row) ==
    \/ has_role(uid, "candidate") /\ uid = row.candidate_id
    \/ has_role(uid, "hr")

\* The select policies of screening_results: the candidate's own, or those
\* the HR user created.
CanSelectScreeningResult(uid, row) ==
    \/ has_role(uid, "candidate") /\ uid = row.candidate_id
    \/ has_role(uid, "hr") /\ uid = row.hr_id

\* select * from job_descriptions, as user uid.
SelectJobDescriptions(uid) ==
    /\ DbFrame
    /\ selected' = [uid |-> uid, table |-> "job_descriptions",
                    rows |-> {r \in job_descriptions : CanSelectJobDescription(uid, r)}]
    /\ UNCHANGED <<user_roles, job_descriptions, db_resumes, screening_results>>

\* select * from resumes, as user uid.
SelectResumes(uid) ==
    /\ DbFrame
    /\ selected' = [uid |-> uid, table |-> "resumes",
                    rows |-> {r \in db_resumes : CanSelectResume(uid, r)}]
    /\ UNCHANGED <<user_roles, job_descriptions, db_resumes, screening_results>>

\* select * from screening_results, as user uid.
SelectScreeningResults(uid) ==
    /\ DbFrame
    /\ selected' = [uid |-> uid, table |-> "screening_results",
                    rows |-> {r \in screening_results :
                                 CanSelectScreeningResult(uid, r)}]
    /\ UNCHANGED <<user_roles, job_descriptions, db_resumes, screening_results>>

-----------------------------------------------------------------------------
\* HR dashboard (pages/hr/Dashboard.tsx) and ApiClient.evaluateBatchWithATS.

\* A batch that is not running.
BatchIdle ==
    [pc |-> "idle", files |-> <<>>, jd |-> EmptyText, next |-> 1,
     atsResults |-> <<>>]

\* The dashboard touches neither the scoring engine nor the Index page.
HRFrame == PageFrame /\ UNCHANGED <<indexVars, invalidFiles, extractVars, authVars>>

\* Job descriptions the extraction endpoint returns (`analysis.extracted_text
\* || ''`).
ExtractedTexts ==
    {EmptyText, Text("jdA", 0, MinJobDescriptionLength, 0),
     Text("jdB", 0, MinJobDescriptionLength, 0)}

\* The folder the recruiter picks resumes from, in the order the file
\* dialog lists it.
Folder == <<"b.DOCX", "a.pdf", "d.exe", "c.txt">>

\* File lists the recruiter can pick: up to MaxBatch files of the folder.
FileSelections ==
    {SelectSeq(Folder, LAMBDA f : f \in chosen) :
        chosen \in {c \in SUBSET UploadableFiles : Cardinality(c) <= MaxBatch}}

\* A validation that lets every file through.
validateResumeFilesBroken(files) == files

\* Dashboard.validateResumeFiles: the files with an allowed extension, in
\* the order given.
validateResumeFiles(files) ==
    SelectSeq(files, LAMBDA f : FileExtension(f) \in AllowedExtensions)

\* Array.prototype.indexOf: the first index holding that very object, -1
\* (here 0) when there is none.
indexOf(seq, obj) ==
    IF \E i \in 1..Len(seq) : seq[i].oid = obj.oid
    THEN CHOOSE i \in 1..Len(seq) :
            /\ seq[i].oid = obj.oid
            /\ \A j \in 1..(i - 1) : seq[j].oid # obj.oid
    ELSE 0

\* Array.prototype.sort with a comparator: stable, so an element precedes
\* another when the comparator says so, or when it says 0 and it came first.
SortWith(seq, cmp) ==
    LET n == Len(seq)
        Before(j, i) == cmp[seq[j], seq[i]] < 0
                        \/ (cmp[seq[j], seq[i]] = 0 /\ j < i)
        Rank(i) == Cardinality({j \in 1..n : j # i /\ Before(j, i)}) + 1
    IN [k \in 1..n |-> seq[CHOOSE i \in 1..n : Rank(i) = k]]

\* handleAnalyze: analysisResults.sort((a, b) => b.total_score - a.total_score)
CompareTotalScore(a, b) == b.total_score - a.total_score

\* sortedResults: (a, b) => b.score - a.score.  A ScoringResult has no
\* `score` field: undefined - undefined is NaN, which sort takes as +0.
CompareScore(a, b) == 0

sortedResults ==
    SortWith(results, [a \in Range(results), b \in Range(results) |->
                          CompareScore(a, b)])

\* The request evaluateBatchWithATS makes for the file the loop is at.
BatchRequestBroken(b) == [file |-> b.files[1], jd |-> b.jd]

BatchRequest(b) == [file |-> b.files[b.next], jd |-> b.jd]

\* A loop that gives up at the first failure.
BatchAfterBroken(b, file, r) ==
    IF r.ok
    THEN [b EXCEPT !.next = @ + 1,
                   !.atsResults = Append(@, [oid |-> b.next, file |-> file,
                                             ats_score |-> r.value.ats_score,
                                             status |-> r.value.status])]
    ELSE [b EXCEPT !.next = Len(b.files) + 1]

\* One turn of the loop of evaluateBatchWithATS: results.push(result) on
\* success; on failure console.error and on to the next file.
BatchAfter(b, file, r) ==
    IF r.ok
    THEN [b EXCEPT !.next = @ + 1,
                   !.atsResults = Append(@, [oid |-> b.next, file |-> file,
                                             ats_score |-> r.value.ats_score,
                                             status |-> r.value.status])]
    ELSE [b EXCEPT !.next = @ + 1]

\* handleAnalyze: the ScoringResult row built from one ATS result.
ScoringResultOf(atsResults, files, r) ==
    LET currentIndex == indexOf(atsResults, r)
    IN [filename |-> files[currentIndex],
        total_score |-> MathRound(r.ats_score),
        is_shortlisted |-> (r.status = "SHORTLISTED"),
        atsResult |-> r]

\* handleAnalyze: the rows of a finished batch, sorted for setResults.
analysisResults(atsResults, files) ==
    LET rows == [i \in 1..Len(atsResults) |->
                    ScoringResultOf(atsResults, files, atsResults[i])]
    IN SortWith(rows, [a \in Range(rows), b \in Range(rows) |->
                          CompareTotalScore(a, b)])

\* The card of one row: isShortlisted, which drives the success ring, the
\* status colour and the "Qualified" marker. total_score is in whole points.
isShortlisted(result) ==
    result.is_shortlisted \/ result.total_score >= 80

\* The "N shortlisted out of M candidates" line: N.
shortlistedCount ==
    Cardinality({i \in 1..Len(sortedResults) :
                    sortedResults[i].total_score >= 70})

\* Dashboard.extractJobDetails, on the server's answer.
extractJobDetails(text) ==
    /\ HRFrame
    /\ extractedJobDescription' = text
    /\ UNCHANGED <<resumes, loading, results, batch, hrToast, submitted, failed,
                   analyses>>

\* Dashboard.handleJobDescFileChange(null).
handleJobDescFileChange ==
    /\ HRFrame
    /\ Length(extractedJobDescription) > 0
    /\ extractedJobDescription' = EmptyText
    /\ UNCHANGED <<resumes, loading, results, batch, hrToast, submitted, failed,
                   analyses>>

\* Dashboard.handleMultipleFileUpload / handleFileChange.
handleMultipleFileUpload(files) ==
    /\ PageFrame /\ UNCHANGED <<indexVars, extractVars, authVars>>
    /\ resumes' = validateResumeFiles(files)
    /\ invalidFiles' = invalidFiles \cup (Range(files) \ Range(resumes'))
    /\ UNCHANGED <<extractedJobDescription, loading, results, batch, hrToast,
                   submitted, failed, analyses>>

\* Dashboard.handleAnalyze up to `await apiClient.evaluateBatchWithATS(...)`
\* (the button is disabled while loading).
handleAnalyze ==
    /\ HRFrame
    /\ ~loading
    /\ analyses < MaxAnalyses
    /\ analyses' = analyses + 1
    /\ IF Length(extractedJobDescription) = 0
       THEN /\ hrToast' = "no_job_description"
            /\ UNCHANGED <<loading, batch, submitted, failed>>
       ELSE IF Len(resumes) = 0
       THEN /\ hrToast' = "no_resumes"
            /\ UNCHANGED <<loading, batch, submitted, failed>>
       ELSE /\ loading' = TRUE
            /\ hrToast' = "analyzing"
            /\ batch' = [pc |-> "running", files |-> resumes,
                         jd |-> extractedJobDescription, next |-> 1,
                         atsResults |-> <<>>]
            /\ submitted' = <<>>
            /\ failed' = {}
    /\ UNCHANGED <<extractedJobDescription, resumes, results>>

\* evaluateBatchWithATS: one file of the loop, with the outcome of its
\* request.
BatchStep(net) ==
    /\ HRFrame
    /\ batch.pc = "running"
    /\ batch.next <= Len(batch.files)
    /\ LET file == batch.files[batch.next]
           req == BatchRequest(batch)
           r == evaluateResumeWithATS(req.file, req.jd, net)
       IN /\ submitted' = Append(submitted, req.file)
          /\ failed' = IF r.ok THEN failed ELSE failed \cup {file}
          /\ batch' = BatchAfter(batch, file, r)
    /\ UNCHANGED <<extractedJobDescription, resumes, loading, results, hrToast,
                   analyses>>

\* handleAnalyze after the await: rows built and sorted, setResults, the
\* success toast; finally setLoading(false).
BatchFinish ==
    /\ HRFrame
    /\ batch.pc = "running"
    /\ batch.next > Len(batch.files)
    /\ results' = analysisResults(batch.atsResults, batch.files)
    /\ hrToast' = "analyzed"
    /\ loading' = FALSE
    /\ batch' = [batch EXCEPT !.pc = "done"]
    /\ UNCHANGED <<extractedJobDescription, resumes, submitted, failed, analyses>>

HRIdle ==
    /\ extractedJobDescription = EmptyText
    /\ resumes = <<>>
    /\ loading = FALSE
    /\ results = <<>>
    /\ batch = BatchIdle
    /\ hrToast = ""
    /\ submitted = <<>>
    /\ failed = {}
    /\ analyses = 0

\* ---- job-description extraction on the dashboard ----

ExtractIdle ==
    /\ hrJobDescFile = NoJobDescFile
    /\ extractedJobTitle = ""
    /\ isExtracting = FALSE
    /\ extractions = {}

\* The title extractJobDetails derives from the extracted text: what its
\* text processing finds in the text, 'Software Developer' when it finds
\* nothing.
JobTitleOf(text) ==
    IF Length(text) = 0 THEN "Software Developer" ELSE text.id

ExtractFrame ==
    /\ PageFrame
    /\ UNCHANGED <<indexVars, invalidFiles, authVars>>
    /\ UNCHANGED <<resumes, loading, results, batch, submitted, failed, analyses>>

\* Dashboard.handleJobDescFileChange(file) with a file: the file is held and
\* extractJobDetails runs up to its await.  No request is issued for a file
\* whose request is still pending.
StartExtraction(file) ==
    /\ ExtractFrame
    /\ file \notin extractions
    /\ hrJobDescFile' = file
    /\ isExtracting' = TRUE
    /\ extractions' = extractions \cup {file}
    /\ UNCHANGED <<extractedJobTitle, extractedJobDescription, hrToast>>

\* extractJobDetails after its await: the response for `file` arrives.
ExtractionResponse(file, net) ==
    /\ ExtractFrame
    /\ file \in extractions
    /\ extractions' = extractions \ {file}
    /\ IF net = "ok"
         THEN /\ extractedJobTitle' = JobTitleOf(file.text)
              /\ extractedJobDescription' = file.text
              /\ hrToast' = "extracted"
         ELSE /\ hrToast' = "extract_failed"
              /\ UNCHANGED <<extractedJobTitle, extractedJobDescription>>
    /\ isExtracting' = FALSE
    /\ UNCHANGED hrJobDescFile

\* Dashboard.handleJobDescFileChange(null): the file is removed.
RemoveJobDescFile ==
    /\ ExtractFrame
    /\ hrJobDescFile # NoJobDescFile
    /\ hrJobDescFile' = NoJobDescFile
    /\ extractedJobTitle' = ""
    /\ extractedJobDescription' = EmptyText
    /\ UNCHANGED <<isExtracting, extractions, hrToast>>

(***************************************************************************)
(*      AUTHENTICATION (HybridAuthContext.tsx, ProtectedRoute.tsx)         *)
(***************************************************************************)

MaxRedirects == 3

NoUser == [id |-> "", email |-> <<>>]

\* The account registered with Supabase and the address it signs in with.
Account == "ana"
AccountEmail == <<"a", "@", "x">>

\* Addresses typed into the login form, as character sequences.
Emails ==
    {AccountEmail,
     <<"H", "R", "@", "x">>,
     <<"c", "h", "r", "i", "s", "@", "x">>,
     <<"h", "@", "r">>,
     <<"h", "r">>}

\* Password lengths typed into the login form.
PasswordLengths == {5, 6}

toLowerCase(s) ==
    [i \in 1..Len(s) |->
        CASE s[i] = "H" -> "h"
          [] s[i] = "R" -> "r"
          [] OTHER -> s[i]]

\* String.prototype.includes.
includes(s, sub) ==
    \E i \in 0..(Len(s) - Len(sub)) :
        \A j \in 1..Len(sub) : s[i + j] = sub[j]

\* A role guess that compares the address as typed.
offlineRoleBroken(email) ==
    IF includes(email, <<"h", "r">>) THEN "hr" ELSE "candidate"

\* signIn, offline branch: email.toLowerCase().includes('hr') ? 'hr' : 'candidate'.
offlineRole(email) ==
    IF includes(toLowerCase(email), <<"h", "r">>) THEN "hr" ELSE "candidate"

\* loginSchema: z.string().email() and a password of at least six characters.
loginSchema(email, passwordLength) ==
    /\ \E i \in 2..(Len(email) - 1) :
          /\ email[i] = "@"
          /\ \A j \in 1..Len(email) : email[j] = "@" => j = i
    /\ passwordLength >= 6

\* ---- ProtectedRoute ----

Spinner == [kind |-> "spinner", to |-> ""]
Children == [kind |-> "children", to |-> ""]
Navigate(to) == [kind |-> "navigate", to |-> to]
Page(name) == [kind |-> name, to |-> ""]

\* A guard that leaves out the role comparison.
ProtectedRouteBroken(requiredRole, u, role, isLoading, offline) ==
    IF isLoading THEN Spinner
    ELSE IF u = NoUser /\ ~offline THEN Navigate("/auth/login")
    ELSE Children

ProtectedRoute(requiredRole, u, role, isLoading, offline) ==
    IF isLoading THEN Spinner
    ELSE IF u = NoUser /\ ~offline THEN Navigate("/auth/login")
    ELSE IF requiredRole # "" /\ role # requiredRole
         THEN Navigate(IF role = "candidate" THEN "/" ELSE "/hr/dashboard")
    ELSE Children

Paths == {"/", "/app", "/auth/login", "/auth/signup", "/hr/dashboard"}

\* The routes of App: what the element of `p` renders in the given
\* authentication state.
RouteElement(p, u, role, isLoading, offline) ==
    IF p = "/hr/dashboard"
    THEN LET r == ProtectedRoute("hr", u, role, isLoading, offline)
         IN  IF r = Children THEN Page("dashboard") ELSE r
    ELSE Page(p)

\* React renders the route again after every change of state.
Rendered ==
    shown' = RouteElement(pathname', user', userRole', authLoading', isOfflineMode')

\* ---- HybridAuthProvider ----

Call(name, userId) == [call |-> name, userId |-> userId]

NoSignIn == [branch |-> "none", email |-> <<>>, error |-> FALSE]
NoFetch ==
    [query |-> "none", meta |-> "none", retry |-> "none", role |-> "",
     wentOffline |-> FALSE]

\* The provider after its first render: its effect has started
\* checkSupabaseHealth.
AuthMounted ==
    /\ user = NoUser
    /\ userRole = ""
    /\ isOfflineMode = FALSE
    /\ authLoading = TRUE
    /\ subscribed = FALSE
    /\ pendingCalls = {Call("checkSupabaseHealth", "")}
    /\ pathname = "/"
    /\ shown = Page("/")
    /\ redirects = 0
    /\ lastSignIn = NoSignIn
    /\ lastFetch = NoFetch

\* A browser in which nobody has signed in.
AuthIdle == AuthMounted /\ authSession = ""

\* The ghosts hold the call that has just returned, and nothing later.
NoCallReturned == lastSignIn' = NoSignIn /\ lastFetch' = NoFetch

AuthFrame ==
    UNCHANGED <<scoringVars, rawVars, scoreOf, indexVars, hrVars, dbVars,
                resultsVars, invalidFiles, extractVars>>

\* How the select on `profiles` can end.
HealthOutcomes == {"ok", "rls_error", "other_error", "throws"}

\* checkSupabaseHealth after its await; setupSupabaseAuth when the check
\* passes: the callback is registered and getSession is called.  The client
\* answers a registration with the INITIAL_SESSION event.
HealthCheckResponse(health) ==
    /\ AuthFrame
    /\ Call("checkSupabaseHealth", "") \in pendingCalls
    /\ IF health \in {"rls_error", "throws"}
         THEN /\ isOfflineMode' = TRUE
              /\ userRole' = ""
              /\ authLoading' = FALSE
              /\ pendingCalls' = pendingCalls \ {Call("checkSupabaseHealth", "")}
              /\ UNCHANGED subscribed
         ELSE /\ subscribed' = TRUE
              /\ pendingCalls' =
                    (pendingCalls \ {Call("checkSupabaseHealth", "")})
                        \cup {Call("getSession", ""), Call("INITIAL_SESSION", "")}
              /\ UNCHANGED <<isOfflineMode, userRole, authLoading>>
    /\ UNCHANGED <<user, authSession, pathname, redirects>>
    /\ NoCallReturned
    /\ Rendered

\* The callback given to onAuthStateChange, for a session of `account`
\* ("" for no session): the state it leaves and the call it starts.
AuthCallback(account) ==
    /\ user' = IF account = "" THEN NoUser
               ELSE [id |-> account, email |-> AccountEmail]
    /\ IF account # ""
         THEN /\ pendingCalls' =
                    (pendingCalls \ {Call("INITIAL_SESSION", "")})
                        \cup {Call("fetchUserRole", account)}
              /\ UNCHANGED <<userRole, authLoading>>
         ELSE /\ userRole' = ""
              /\ authLoading' = FALSE
              /\ pendingCalls' = pendingCalls \ {Call("INITIAL_SESSION", "")}

\* The client delivers INITIAL_SESSION to the callback.
InitialSession ==
    /\ AuthFrame
    /\ Call("INITIAL_SESSION", "") \in pendingCalls
    /\ AuthCallback(authSession)
    /\ UNCHANGED <<isOfflineMode, subscribed, authSession, pathname, redirects>>
    /\ NoCallReturned
    /\ Rendered

\* The client reports a later event for the session it holds
\* (TOKEN_REFRESHED, USER_UPDATED).
AuthStateChange ==
    /\ AuthFrame
    /\ subscribed
    /\ Call("INITIAL_SESSION", "") \notin pendingCalls
    /\ authSession # ""
    /\ AuthCallback(authSession)
    /\ UNCHANGED <<isOfflineMode, subscribed, authSession, pathname, redirects>>
    /\ NoCallReturned
    /\ Rendered

\* supabase.auth.getSession().then(...): `resolved` is false when the
\* promise rejects, and then the callback of then() never runs.
GetSessionResponse(resolved) ==
    /\ AuthFrame
    /\ Call("getSession", "") \in pendingCalls
    /\ IF resolved
         THEN /\ user' = IF authSession = "" THEN NoUser
                         ELSE [id |-> authSession, email |-> AccountEmail]
              /\ IF authSession # ""
                   THEN /\ pendingCalls' =
                              (pendingCalls \ {Call("getSession", "")})
                                  \cup {Call("fetchUserRole", authSession)}
                        /\ UNCHANGED authLoading
                   ELSE /\ authLoading' = FALSE
                        /\ pendingCalls' = pendingCalls \ {Call("getSession", "")}
         ELSE /\ pendingCalls' = pendingCalls \ {Call("getSession", "")}
              /\ UNCHANGED <<user, authLoading>>
    /\ UNCHANGED <<userRole, isOfflineMode, subscribed, authSession, pathname,
                   redirects>>
    /\ NoCallReturned
    /\ Rendered

\* How the select on user_roles can end, and how a getUser call can end.
QueryOutcomes == {"candidate", "hr", "empty", "error", "throws"}
MetadataOutcomes == {"candidate", "hr", "none", "throws"}

IsRole(r) == r \in {"candidate", "hr"}

\* A fallback that trusts the retry only.
fetchUserRoleDecisionBroken(query, meta, retry) ==
    IF IsRole(retry) THEN [role |-> retry, offline |-> FALSE]
    ELSE [role |-> "candidate", offline |-> TRUE]

\* fetchUserRole: the role it sets and whether it calls setIsOfflineMode(true),
\* from the result of the user_roles query, of the getUser call of the
\* branch taken, and of the getUser call of the catch block.
fetchUserRoleDecision(query, meta, retry) ==
    LET caught ==
            IF IsRole(retry) THEN [role |-> retry, offline |-> FALSE]
            ELSE [role |-> "candidate", offline |-> TRUE]
    IN  CASE query = "throws" -> caught
          [] query = "error" ->
                IF IsRole(meta) THEN [role |-> meta, offline |-> FALSE]
                ELSE IF meta = "throws" THEN caught
                ELSE [role |-> "candidate", offline |-> TRUE]
          [] query = "empty" ->
                IF IsRole(meta) THEN [role |-> meta, offline |-> FALSE]
                ELSE IF meta = "throws" THEN caught
                ELSE [role |-> "candidate", offline |-> FALSE]
          [] OTHER -> [role |-> query, offline |-> FALSE]

\* A fetchUserRole without its finally block.
FetchUserRoleDoneBroken(userId, query, meta, retry) ==
    /\ AuthFrame
    /\ Call("fetchUserRole", userId) \in pendingCalls
    /\ pendingCalls' = pendingCalls \ {Call("fetchUserRole", userId)}
    /\ LET d == fetchUserRoleDecision(query, meta, retry)
       IN  /\ userRole' = d.role
           /\ isOfflineMode' = (isOfflineMode \/ d.offline)
           /\ lastFetch' = [query |-> query, meta |-> meta, retry |-> retry,
                            role |-> d.role, wentOffline |-> d.offline]
    /\ lastSignIn' = NoSignIn
    /\ UNCHANGED <<user, authLoading, subscribed, authSession, pathname,
                   redirects>>
    /\ Rendered

\* fetchUserRole(userId) from its last await to the end of its finally
\* block.  Between its awaits it neither reads nor writes the provider.
FetchUserRoleDone(userId, query, meta, retry) ==
    /\ AuthFrame
    /\ Call("fetchUserRole", userId) \in pendingCalls
    /\ pendingCalls' = pendingCalls \ {Call("fetchUserRole", userId)}
    /\ LET d == fetchUserRoleDecision(query, meta, retry)
       IN  /\ userRole' = d.role
           /\ isOfflineMode' = (isOfflineMode \/ d.offline)
           /\ lastFetch' = [query |-> query, meta |-> meta, retry |-> retry,
                            role |-> d.role, wentOffline |-> d.offline]
    /\ authLoading' = FALSE
    /\ lastSignIn' = NoSignIn
    /\ UNCHANGED <<user, subscribed, authSession, pathname, redirects>>
    /\ Rendered

\* signUp(email, password, fullName, role), called by Signup.handleSubmit,
\* which then navigates to the login page.  `session` tells whether Supabase
\* signed the new user in (no e-mail confirmation required).
signUp(role, ok, session) ==
    /\ AuthFrame
    /\ pathname = "/auth/signup"
    /\ IF isOfflineMode
         THEN /\ userRole' = role
              /\ pathname' = "/auth/login"
              /\ UNCHANGED <<user, authLoading, authSession, pendingCalls>>
         ELSE IF ok
         THEN /\ pathname' = "/auth/login"
              /\ authSession' = IF session THEN Account ELSE authSession
              /\ IF session /\ subscribed
                   THEN AuthCallback(Account)
                   ELSE UNCHANGED <<user, userRole, authLoading, pendingCalls>>
         ELSE UNCHANGED <<user, userRole, authLoading, authSession,
                          pendingCalls, pathname>>
    /\ redirects' = 0
    /\ UNCHANGED <<isOfflineMode, subscribed>>
    /\ NoCallReturned
    /\ Rendered

\* A sign-in that always goes to Supabase.
signInBranchBroken(offline) == "supabase"

\* signIn: `if (isOfflineMode)`.
signInBranch(offline) == IF offline THEN "offline" ELSE "supabase"

\* Login.handleSubmit: loginSchema, then signIn(email, password).
\* `accepted` tells whether signInWithPassword accepts the credentials.
handleSubmit(email, passwordLength, accepted) ==
    /\ AuthFrame
    /\ pathname = "/auth/login"
    /\ loginSchema(email, passwordLength)
    /\ LET branch == signInBranch(isOfflineMode)
       IN  /\ lastSignIn' =
                 [branch |-> branch, email |-> email,
                  error |-> (branch = "supabase" /\ ~accepted)]
           /\ IF branch = "offline"
                THEN /\ user' = [id |-> "offline-user", email |-> email]
                     /\ userRole' = offlineRole(email)
                     /\ authLoading' = FALSE
                     /\ UNCHANGED <<authSession, pendingCalls>>
                ELSE IF accepted /\ email = AccountEmail
                THEN /\ authSession' = Account
                     /\ IF subscribed
                          THEN AuthCallback(Account)
                          ELSE UNCHANGED <<user, userRole, authLoading,
                                           pendingCalls>>
                ELSE UNCHANGED <<user, userRole, authLoading, authSession,
                                 pendingCalls>>
    /\ lastFetch' = NoFetch
    /\ UNCHANGED <<isOfflineMode, subscribed, pathname, redirects>>
    /\ Rendered

\* Login's effect: a signed-in user with a role is sent to their page.
LoginRedirect ==
    /\ AuthFrame
    /\ pathname = "/auth/login"
    /\ user # NoUser
    /\ userRole # ""
    /\ pathname' = IF userRole = "hr" THEN "/hr/dashboard" ELSE "/app"
    /\ redirects' = Min(redirects + 1, MaxRedirects)
    /\ UNCHANGED <<user, userRole, isOfflineMode, authLoading, subscribed,
                   authSession, pendingCalls>>
    /\ NoCallReturned
    /\ Rendered

\* signOut, from the header of the Index page or from the dashboard.  Online,
\* supabase.auth.signOut() ends the session and reports SIGNED_OUT to the
\* callback before signOut goes on.
signOut ==
    /\ AuthFrame
    /\ \/ pathname = "/app" /\ user # NoUser
       \/ shown = Page("dashboard")
    /\ userRole' = ""
    /\ user' = NoUser
    /\ pathname' = "/auth/login"
    /\ redirects' = 0
    /\ IF isOfflineMode
         THEN UNCHANGED <<authSession, authLoading>>
         ELSE /\ authSession' = ""
              /\ authLoading' = IF subscribed THEN FALSE ELSE authLoading
    /\ UNCHANGED <<isOfflineMode, subscribed, pendingCalls>>
    /\ NoCallReturned
    /\ Rendered

\* switchToOfflineMode(role), the test buttons the login page shows in
\* offline mode.
switchToOfflineMode(role) ==
    /\ AuthFrame
    /\ pathname = "/auth/login"
    /\ isOfflineMode
    /\ isOfflineMode' = TRUE
    /\ userRole' = role
    /\ user' = [id |-> IF role = "hr" THEN "offline-hr" ELSE "offline-candidate",
                email |-> <<"t", "@", "x">>]
    /\ authLoading' = FALSE
    /\ pathname' = IF role = "hr" THEN "/hr/dashboard" ELSE "/app"
    /\ redirects' = 0
    /\ UNCHANGED <<subscribed, authSession, pendingCalls>>
    /\ NoCallReturned
    /\ Rendered

\* The user opens a route (a link, the address bar within the application).
Visit(p) ==
    /\ AuthFrame
    /\ p # pathname
    /\ pathname' = p
    /\ redirects' = 0
    /\ UNCHANGED <<user, userRole, isOfflineMode, authLoading, subscribed,
                   authSession, pendingCalls>>
    /\ NoCallReturned
    /\ Rendered

\* <Navigate to=... replace />: the redirect a route element rendered.
Redirect ==
    /\ AuthFrame
    /\ shown.kind = "navigate"
    /\ pathname' = shown.to
    /\ redirects' = Min(redirects + 1, MaxRedirects)
    /\ UNCHANGED <<user, userRole, isOfflineMode, authLoading, subscribed,
                   authSession, pendingCalls>>
    /\ NoCallReturned
    /\ Rendered

IndexInit ==
    /\ ScoringIdle
    /\ scoreOf = [f \in ResumeFiles |-> IF f = "a.pdf" THEN 7960 ELSE 8040]
    /\ IndexIdle
    /\ HRIdle
    /\ DbIdle
    /\ ResultsIdle
    /\ invalidFiles = {}
    /\ ExtractIdle
    /\ AuthIdle

IndexNext ==
    \/ \E f \in {"a.pdf", "d.exe"} : SelectResume(f)
    \/ ClearResume
    \/ \E f \in JobDescFiles : SelectJobDescFile(f)
    \/ \E f \in JobDescFiles : JobDescFileLoaded(f)
    \/ ClearJobDescFile
    \/ \E t \in PastedTexts : TypeJobDescText(t)
    \/ handleReset
    \/ handleScreening
    \/ ScreeningFileRead
    \/ \E net \in NetworkOutcomes, u \in UploadIds : ScreeningResponse(net, u)
    \/ handleNewScreening

SpecIndex == IndexInit /\ [][IndexNext]_vars

ScoreInit ==
    /\ ScoringInit
    /\ scoreOf = [f \in ResumeFiles |-> 7960]
    /\ IndexIdle
    /\ HRIdle
    /\ DbIdle
    /\ ResultsIdle
    /\ invalidFiles = {}
    /\ ExtractIdle
    /\ AuthIdle

ScoreNext ==
    \/ EvaluateCandidate
    \/ DiscardResult

SpecScore == ScoreInit /\ [][ScoreNext]_vars

DefaultsInit ==
    /\ rawCandidate \in RawCandidateProfiles
    /\ rawJob \in RawJobProfiles
    /\ candidate = Null /\ job = Null /\ atsResult = NoResult
    /\ scoreOf = [f \in ResumeFiles |-> 7960]
    /\ IndexIdle
    /\ HRIdle
    /\ DbIdle
    /\ ResultsIdle
    /\ invalidFiles = {}
    /\ ExtractIdle
    /\ AuthIdle

DefaultsNext ==
    \/ EvaluateRawProfiles
    \/ DiscardResult

SpecDefaults == DefaultsInit /\ [][DefaultsNext]_vars

\* The results a navigation to /results can carry.
NavigatedResults ==
    {ServerEvaluate(f, Text("jdA", 0, MinJobDescriptionLength, 0)) :
        f \in ResumeFiles} \cup {MalformedResult}

ResultsInit ==
    /\ ScoringIdle
    /\ scoreOf = [f \in ResumeFiles |-> CASE f = "a.pdf" -> 8040
                                          [] f = "b.DOCX" -> 7960
                                          [] OTHER -> 0]
    /\ IndexIdle
    /\ HRIdle
    /\ DbIdle
    /\ definition \in ResultsDefinitions
    /\ component = Unmounted
    /\ sessionStorage \in [atsResultBackup : {NoBackup, GarbageBackup},
                           lastAtsResult : {NoLastResult}]
    /\ historyState = "router"
    /\ timers = {}
    /\ reloading = FALSE
    /\ view = NoView
    /\ visits = 0
    /\ invalidFiles = {}
    /\ ExtractIdle
    /\ AuthIdle

ResultsNext ==
    \/ \E r \in NavigatedResults, u \in UploadIds : EnterResults(r, u)
    \/ OpenResultsUrl
    \/ OpenIndex
    \/ BrowserRefresh
    \/ BackupAges
    \/ RenderResults
    \/ RedirectTimer
    \/ ReloadTimer
    \/ ForcedReload
    \/ handleBackToAnalysis

SpecResults == ResultsInit /\ [][ResultsNext]_vars

\* Both upload components, each on its own page: the browser shows either
\* the Index page or the HR dashboard.
UploadInit ==
    /\ ScoringIdle
    /\ scoreOf = [f \in ResumeFiles |-> 7960]
    /\ resumeFile = Null
    /\ jobDescFile = NoJobDescFile
    /\ jobDescText = EmptyText
    /\ isAnalyzing = FALSE
    /\ screening = ScreeningIdle
    /\ location \in {[path |-> p, state |-> NoNavigationState] :
                        p \in {"/app", "/hr/dashboard"}}
    /\ toast = ""
    /\ jdReads = {}
    /\ sent = {}
    /\ outcome = ""
    /\ history = <<>>
    /\ runs = 0
    /\ HRIdle
    /\ DbIdle
    /\ ResultsIdle
    /\ invalidFiles = {}
    /\ ExtractIdle
    /\ AuthIdle

UploadNext ==
    \/ \E f \in UploadableFiles : SelectResume(f)
    \/ ClearResume
    \/ TypeJobDescText(Text("jdA", 0, MinJobDescriptionLength, 0))
    \/ handleReset
    \/ handleScreening
    \/ \E net \in NetworkOutcomes : ScreeningResponse(net, "u1")
    \/ handleNewScreening
    \/ DashboardMounted /\ extractJobDetails(Text("jdA", 0, MinJobDescriptionLength, 0))
    \/ \E fs \in FileSelections : DashboardMounted /\ handleMultipleFileUpload(fs)
    \/ DashboardMounted /\ handleAnalyze
    \/ \E net \in NetworkOutcomes : DashboardMounted /\ BatchStep(net)
    \/ DashboardMounted /\ BatchFinish

SpecUpload == UploadInit /\ [][UploadNext]_vars

\* The same page with its scheduling: React performs a pending render, the
\* browser fires a pending timer and carries out a requested reload.  The
\* user is under no obligation to do anything.
SpecResultsLive ==
    /\ ResultsInit
    /\ [][ResultsNext]_vars
    /\ WF_vars(RenderResults)
    /\ WF_vars(RedirectTimer)
    /\ WF_vars(ReloadTimer)
    /\ WF_vars(ForcedReload)

RLSInit ==
    /\ ScoringIdle
    /\ scoreOf = [f \in ResumeFiles |-> 7960]
    /\ IndexIdle
    /\ HRIdle
    /\ DbIdle
    /\ ResultsIdle
    /\ invalidFiles = {}
    /\ ExtractIdle
    /\ AuthIdle

RLSNext ==
    \/ \E uid, u \in Users, role \in AppRoles : InsertUserRole(uid, u, role)
    \/ \E uid, h \in Users : InsertJobDescription(uid, h)
    \/ \E uid, c \in Users : InsertResume(uid, c)
    \/ \E uid, c, h \in Users : InsertScreeningResult(uid, c, h)
    \/ \E uid \in Users : SelectJobDescriptions(uid)
    \/ \E uid \in Users : SelectResumes(uid)
    \/ \E uid \in Users : SelectScreeningResults(uid)

SpecRLS == RLSInit /\ [][RLSNext]_vars

HRInit ==
    /\ ScoringIdle
    /\ scoreOf \in ScoreTables
    /\ IndexIdle
    /\ HRIdle
    /\ DbIdle
    /\ ResultsIdle
    /\ invalidFiles = {}
    /\ ExtractIdle
    /\ AuthIdle

HRNext ==
    \/ \E t \in ExtractedTexts : extractJobDetails(t)
    \/ handleJobDescFileChange
    \/ \E fs \in FileSelections : handleMultipleFileUpload(fs)
    \/ handleAnalyze
    \/ \E net \in NetworkOutcomes : BatchStep(net)
    \/ BatchFinish

SpecHR == HRInit /\ [][HRNext]_vars

\* The recruiter selects and removes job-description files while the
\* extraction responses arrive in any order.
ExtractInit == HRInit

ExtractNext ==
    \/ \E file \in JobDescFiles : StartExtraction(file)
    \/ \E file \in JobDescFiles, net \in NetworkOutcomes :
          ExtractionResponse(file, net)
    \/ RemoveJobDescFile

SpecExtract == ExtractInit /\ [][ExtractNext]_vars


\* The provider and the routes, with every result of the Supabase calls.
\* The browser may hold the session of an earlier visit.
AuthInit ==
    /\ ScoringIdle
    /\ scoreOf = [f \in ResumeFiles |-> IF f = "a.pdf" THEN 7960 ELSE 8040]
    /\ IndexIdle
    /\ HRIdle
    /\ DbIdle
    /\ ResultsIdle
    /\ invalidFiles = {}
    /\ ExtractIdle
    /\ AuthMounted
    /\ authSession \in {"", Account}

AuthNext ==
    \/ \E health \in HealthOutcomes : HealthCheckResponse(health)
    \/ InitialSession
    \/ AuthStateChange
    \/ \E resolved \in BOOLEAN : GetSessionResponse(resolved)
    \/ \E q \in QueryOutcomes, m, r \in MetadataOutcomes :
          FetchUserRoleDone(Account, q, m, r)
    \/ \E role \in {"candidate", "hr"}, ok, session \in BOOLEAN :
          signUp(role, ok, session)
    \/ \E email \in Emails, n \in PasswordLengths, accepted \in BOOLEAN :
          handleSubmit(email, n, accepted)
    \/ LoginRedirect
    \/ signOut
    \/ \E role \in {"candidate", "hr"} : switchToOfflineMode(role)
    \/ \E p \in Paths : Visit(p)
    \/ Redirect

SpecAuth == AuthInit /\ [][AuthNext]_vars

\* Every Supabase call settles, the client delivers INITIAL_SESSION, and a
\* rendered <Navigate> takes effect.
SpecAuthLive ==
    /\ SpecAuth
    /\ WF_vars(\E health \in HealthOutcomes : HealthCheckResponse(health))
    /\ WF_vars(InitialSession)
    /\ WF_vars(\E resolved \in BOOLEAN : GetSessionResponse(resolved))
    /\ WF_vars(\E q \in QueryOutcomes, m, r \in MetadataOutcomes :
                  FetchUserRoleDone(Account, q, m, r))
    /\ WF_vars(Redirect)

(***************************************************************************)
(*                              PROPERTIES                                 *)
(***************************************************************************)

AllSubScoresFull(b) ==
    /\ b.skill_match_score = 10000
    /\ b.experience_score = 10000
    /\ b.role_fit_score = 10000
    /\ b.education_match_score = 10000
    /\ b.certifications_score = 10000
    /\ b.keyword_match_score = 10000
    /\ b.tech_stack_match_score = 10000

\* The documented weighted sum of a breakdown, in 1/10000 of a point.
DocumentedSum(b) ==
      40 * b.skill_match_score
    + 25 * b.experience_score
    + 15 * b.role_fit_score
    + 10 * b.education_match_score
    + 5 * b.certifications_score
    + 5 * ((b.keyword_match_score + b.tech_stack_match_score) \div 2)

\* C1: every evaluation result has ats_score in [0, 100], equal to
\* 0.40*skills + 0.25*experience + 0.15*role_fit + 0.10*education +
\* 0.05*certifications + 0.05*keywords_tools of its own breakdown up to the
\* rounding to one decimal place (0.05 point); six sub-scores of 100 give
\* exactly 100.
FinalScoreIsWeightedSum ==
    atsResult # NoResult =>
        LET b == atsResult.score_breakdown
            d == 100 * atsResult.ats_score - DocumentedSum(b)
        IN /\ atsResult.ats_score \in 0..10000
           /\ d <= 500 /\ -d <= 500
           /\ AllSubScoresFull(b) => atsResult.ats_score = 10000

PerfectCandidateEvaluated ==
    /\ atsResult # NoResult
    /\ AllSubScoresFull(atsResult.score_breakdown)
    /\ atsResult.ats_score = 10000

\* C2: the status of a result is fixed by its score: SHORTLISTED iff
\* score >= 80, BORDERLINE iff 50 <= score < 80, NOT_SHORTLISTED iff
\* score < 50, with 79.99 BORDERLINE, 80.00 SHORTLISTED, 49.99
\* NOT_SHORTLISTED and 50.00 BORDERLINE; the colour bands of the page agree.
StatusMatchesScore ==
    /\ StatusOf(7999) = "BORDERLINE"
    /\ StatusOf(8000) = "SHORTLISTED"
    /\ StatusOf(4999) = "NOT_SHORTLISTED"
    /\ StatusOf(5000) = "BORDERLINE"
    /\ atsResult # NoResult =>
        LET score == atsResult.ats_score
        IN /\ atsResult.status = "SHORTLISTED" <=> score >= 8000
           /\ atsResult.status = "BORDERLINE" <=> (5000 <= score /\ score < 8000)
           /\ atsResult.status = "NOT_SHORTLISTED" <=> score < 5000
           /\ getScoreColor(score) = "text-green-600"
                  <=> atsResult.status = "SHORTLISTED"
           /\ getScoreColor(score) = "text-red-600"
                  <=> atsResult.status = "NOT_SHORTLISTED"

ResultAtShortlistBoundary ==
    /\ atsResult # NoResult
    /\ atsResult.ats_score = 8000
    /\ atsResult.status = "SHORTLISTED"

\* C9: in every result the matched and the missing skills partition
\* job.mandatory_skills (union equal, nothing in common), and missing_skills
\* keeps the order of the job profile.
MatchedMissingPartition ==
    atsResult # NoResult =>
        LET b == atsResult.score_breakdown
            matched == Range(b.matched_skills)
            missing == Range(b.missing_skills)
        IN /\ matched \cup missing = Range(job.mandatory_skills)
           /\ matched \cap missing = {}
           /\ b.missing_skills =
                 SelectSeq(job.mandatory_skills, LAMBDA sk : sk \notin matched)

\* React matched through case folding, TypeScript missing, JavaScript
\* surplus.
OneMatchedOneMissing ==
    /\ atsResult # NoResult
    /\ job.mandatory_skills = <<"React", "TypeScript">>
    /\ candidate.technical_skills = {"react", "JavaScript"}
    /\ atsResult.score_breakdown.matched_skills = <<"React">>
    /\ atsResult.score_breakdown.missing_skills = <<"TypeScript">>

\* Place of a file in the upload order of the batch.
UploadIndex(file) ==
    CHOOSE i \in 1..Len(batch.files) : batch.files[i] = file

\* C3: the ranking of the HR flow lists candidates in non-increasing order
\* of final_score, candidates with equal final_score in upload order; a
\* strictly higher final_score is never ranked below a lower one.
RankedByFinalScore ==
    batch.pc = "done" =>
        \A i, j \in 1..Len(sortedResults) :
            i < j =>
                LET above == sortedResults[i].atsResult
                    below == sortedResults[j].atsResult
                IN /\ above.ats_score >= below.ats_score
                   /\ above.ats_score = below.ats_score
                          => UploadIndex(above.file) < UploadIndex(below.file)

\* The score the single flow reports for a file against a job description.
SingleScore(file, jd) == evaluateResumeWithATS(file, jd, "ok").value

BatchFailureIsolated ==
    /\ batch.pc \in {"running", "done"} =>
          submitted = SubSeq(batch.files, 1, batch.next - 1)
    /\ batch.pc = "done" =>
          /\ submitted = batch.files
          /\ [i \in 1..Len(batch.atsResults) |-> batch.atsResults[i].file]
                 = SelectSeq(batch.files, LAMBDA f : f \notin failed)

FirstFailedRestSubmitted ==
    /\ batch.pc = "done"
    /\ Len(batch.files) = MaxBatch
    /\ batch.files[1] \in failed
    /\ submitted = batch.files
    /\ Len(batch.atsResults) = MaxBatch - 1

\* C6: a batch over N resumes reports N outcomes; evaluateBatchWithATS
\* returns results only, so the results must be N.
EveryItemReported ==
    batch.pc = "done" => Len(batch.atsResults) = Len(batch.files)

\* C7 (HR flow): a failed evaluation reaches handleAnalyze as an error, and
\* no row shows a score under the name of a resume whose evaluation failed.
FailureNeverShownAsScore ==
    batch.pc = "done" =>
        /\ failed # {} => hrToast # "analyzed"
        /\ \A i \in 1..Len(results) : results[i].filename \notin failed

\* The job description handleScreening is to send for a form: the trimmed
\* pasted text, otherwise the text of the uploaded job-description file.
JobDescriptionToSend(text, jdFile) ==
    IF Length(Trim(text)) > 0 THEN Trim(text) ELSE jdFile.text

ValidInput(file, text, jdFile) ==
    /\ file # Null
    /\ Length(JobDescriptionToSend(text, jdFile)) >= 50

\* A handleScreening run that ends without a request: a validation error,
\* nothing sent, no navigation, isAnalyzing false.
RejectedNext ==
    /\ outcome' = "validation_error"
    /\ toast' \in {"missing_input", "jd_too_short", "jd_file_unreadable"}
    /\ sent' = {}
    /\ location' = location
    /\ ~isAnalyzing'

\* C8: handleScreening sends a request only for a selected resume and a job
\* description to send (trimmed pasted text, otherwise the file's text) of
\* at least 50 characters; for any other input the run ends with a
\* validation error, no request, no navigation and isAnalyzing false.
NoRequestForInvalidInput ==
    /\ [](\A r \in sent : r.file # Null /\ Length(r.jd) >= 50)
    /\ [](screening.pc = "calling" =>
             /\ ValidInput(screening.file, screening.text, screening.jdFile)
             /\ sent = {[file |-> screening.file,
                         jd |-> JobDescriptionToSend(screening.text,
                                                     screening.jdFile)]})
    /\ [][/\ (runs' = runs + 1
              /\ ~ValidInput(resumeFile, jobDescText, jobDescFile))
             => \/ RejectedNext
                \/ /\ screening'.pc = "reading"
                   /\ sent' = {}
                   /\ location' = location
          /\ (screening.pc = "reading" /\ screening'.pc # "reading"
              /\ ~ValidInput(screening.file, screening.text, screening.jdFile))
             => RejectedNext]_vars

\* A pasted description of 49 characters after trimming (50 before) was
\* refused.
ShortDescriptionRejected ==
    /\ outcome = "validation_error"
    /\ toast = "jd_too_short"
    /\ resumeFile # Null
    /\ Length(jobDescText) >= 50
    /\ Length(Trim(jobDescText)) = 49
    /\ sent = {}
    /\ location.path = "/app"
    /\ ~isAnalyzing

ExperienceYears == 0..10

\* C11 (as amended): experience_score is min(100, relevant / max(1,
\* required) * 100); it never exceeds 100, is exactly 100 when the relevant
\* experience is at least max(1, required), and never decreases when the
\* relevant experience grows.
ExperienceScoreCapped ==
    atsResult # NoResult =>
        LET score == atsResult.score_breakdown.experience_score
            relevant == candidate.relevant_experience
            required == job.required_experience
            ratio == (relevant * 10000) \div (IF required >= 1 THEN required ELSE 1)
        IN /\ score = IF ratio > 10000 THEN 10000 ELSE ratio
           /\ score <= 10000
           /\ relevant >= Max(1, required) => score = 10000
           /\ \A more \in ExperienceYears :
                 more >= relevant =>
                     ExperienceScore([candidate EXCEPT
                                         !.relevant_experience = more], job)
                         >= score

\* Eight years against a requirement of five.
OverqualifiedScoresFull ==
    /\ atsResult # NoResult
    /\ job.required_experience = 5
    /\ candidate.relevant_experience = 8
    /\ atsResult.score_breakdown.experience_score = 10000

\* C11 (as stated): a candidate whose relevant experience meets or exceeds
\* the requirement scores exactly 100.
MeetingRequirementScoresFull ==
    atsResult # NoResult =>
        (candidate.relevant_experience >= job.required_experience
            => atsResult.score_breakdown.experience_score = 10000)

SubScoresInRange(b) ==
    /\ b.skill_match_score \in 0..10000
    /\ b.experience_score \in 0..10000
    /\ b.role_fit_score \in 0..10000
    /\ b.education_match_score \in 0..10000
    /\ b.certifications_score \in 0..10000
    /\ b.keyword_match_score \in 0..10000
    /\ b.tech_stack_match_score \in 0..10000

ReadsOnlyOwnRecords ==
    \A row \in selected.rows :
        CASE selected.table = "resumes" -> row.candidate_id = selected.uid
          [] selected.table = "job_descriptions" -> row.hr_id = selected.uid
          [] selected.table = "screening_results" ->
                 row.candidate_id = selected.uid \/ row.hr_id = selected.uid
          [] OTHER -> TRUE

\* C14: the dashboard presents a row as shortlisted (isShortlisted, the
\* "Qualified" marker) exactly when its ATS result has status SHORTLISTED,
\* and the "N shortlisted" count is the number of such rows.
ShortlistedShownIffStatus ==
    /\ \A i \in 1..Len(sortedResults) :
           isShortlisted(sortedResults[i])
               <=> sortedResults[i].atsResult.status = "SHORTLISTED"
    /\ shortlistedCount =
           Cardinality({i \in 1..Len(sortedResults) :
                           sortedResults[i].atsResult.status = "SHORTLISTED"})

\* C15: the results page shows the "Shortlisted" badge and the success
\* wording exactly when the displayed result has status SHORTLISTED, and
\* the "Needs Improvement" badge and the improvement wording otherwise.
BadgeMatchesStatus ==
    view.kind = "result" =>
        IF view.status = "SHORTLISTED"
        THEN view.badge = "Shortlisted" /\ view.wording = "success"
        ELSE view.badge = "Needs Improvement" /\ view.wording = "improvement"

\* The name's last dot-separated segment, lower-cased, is pdf, doc, docx
\* or txt.
HasResumeExtension(name) ==
    FileExtension(name) \in {".pdf", ".doc", ".docx", ".txt"}

\* C16: whatever was selected, dropped or cleared, every file an upload
\* component holds (the resume of the Index page, the resumes of the HR
\* dashboard) has a resume extension, and so has every file submitted for
\* evaluation; a file that was turned away is neither held nor submitted.
OnlyResumeFilesHeld ==
    /\ resumeFile # Null => HasResumeExtension(resumeFile)
    /\ \A i \in 1..Len(resumes) : HasResumeExtension(resumes[i])
    /\ \A r \in sent : HasResumeExtension(r.file)
    /\ \A i \in 1..Len(submitted) : HasResumeExtension(submitted[i])
    /\ \A f \in invalidFiles :
           /\ resumeFile # f
           /\ \A i \in 1..Len(resumes) : resumes[i] # f
           /\ \A r \in sent : r.file # f
           /\ \A i \in 1..Len(submitted) : submitted[i] # f

\* The dashboard turned d.exe away and submitted the file selected with it.
RejectedFileLeftOut ==
    /\ "d.exe" \in invalidFiles
    /\ resumes # <<>>
    /\ submitted = resumes

\* The number of POSTs the current batch made for a file.
Attempts(file) ==
    Cardinality({i \in 1..Len(submitted) : submitted[i] = file})

\* C17: an evaluation call whose failure is reported was attempted at least
\* twice (it was retried) and at most a fixed number of times.
FailedCallWasRetried ==
    \A f \in failed : Attempts(f) >= 2 /\ Attempts(f) <= 3

\* The recruiter withdrew the resumes while the batch was running, after
\* its first evaluation: the one thing the dashboard lets a user take back
\* during an analysis.
BatchCancelled == batch.pc = "running" /\ batch.next > 1 /\ resumes = <<>>

\* C18: once a running batch is cancelled no further resume is dispatched.
NoDispatchAfterCancel ==
    [][BatchCancelled => submitted' = submitted]_vars

\* The result data the page has at a render: the navigation state, or, when
\* that is lost and the first definition is mounted, a backup that is
\* parseable and not stale.
AvailableResultData ==
    IF location.state # NoNavigationState THEN location.state
    ELSE IF /\ definition = 1
            /\ sessionStorage.atsResultBackup.kind = "data"
            /\ sessionStorage.atsResultBackup.fresh
         THEN sessionStorage.atsResultBackup.data
         ELSE NoNavigationState

HasNumericScore(rd) ==
    rd.atsResult # NoResult /\ "ats_score" \in DOMAIN rd.atsResult

Quiescent == ~RenderPending /\ timers = {} /\ ~reloading

\* C20: the renders and forced reloads that follow a navigation come to an
\* end: from some point on the page stays quiescent.
ResultsPageSettles == <>[]Quiescent

\* C30: a user who holds the candidate role never reads a resume of another
\* candidate, nor a screening result of another candidate that someone else
\* recorded, whatever rows the policies let the users insert.
CandidateNeverReadsOthers ==
    has_role(selected.uid, "candidate") =>
        \A row \in selected.rows :
            CASE selected.table = "resumes" -> row.candidate_id = selected.uid
              [] selected.table = "screening_results" ->
                     row.candidate_id = selected.uid \/ row.hr_id = selected.uid
              [] OTHER -> TRUE

\* C28: every row of the ranking carries the name of the file whose
\* evaluation returned the row's result.
RowNamesItsResume ==
    \A i \in 1..Len(results) : results[i].filename = results[i].atsResult.file

\* C29: whenever no extraction is in flight, the extracted description and
\* title held by the dashboard are empty when no file is selected, and
\* otherwise are either still empty or those of the selected file.
ExtractionFollowsSelection ==
    extractions = {} =>
        IF hrJobDescFile = NoJobDescFile
        THEN extractedJobDescription = EmptyText /\ extractedJobTitle = ""
        ELSE \/ extractedJobDescription = EmptyText /\ extractedJobTitle = ""
             \/ /\ extractedJobDescription = hrJobDescFile.text
                /\ extractedJobTitle = JobTitleOf(hrJobDescFile.text)

\* C21: on /hr/dashboard the dashboard is shown only when loading is false,
\* the role is 'hr' and there is a user or offline mode is on; while loading
\* only the spinner is shown; without a user and outside offline mode the
\* route redirects to /auth/login.
ProtectedRouteGuards ==
    /\ shown = Page("dashboard") =>
          /\ pathname = "/hr/dashboard"
          /\ ~authLoading
          /\ userRole = "hr"
          /\ (user # NoUser \/ isOfflineMode)
    /\ pathname = "/hr/dashboard" =>
          /\ authLoading => shown = Spinner
          /\ (~authLoading /\ user = NoUser /\ ~isOfflineMode) =>
                shown = Navigate("/auth/login")

DashboardShownWithoutUser ==
    shown = Page("dashboard") /\ user = NoUser /\ isOfflineMode

\* C22: the route /hr/dashboard never renders a redirect to /hr/dashboard
\* itself, so that a visit ends after finitely many redirects on a page that
\* renders.
NeverRedirectsToItself ==
    ~(pathname = "/hr/dashboard" /\ shown = Navigate("/hr/dashboard"))

\* C23: a role is held only while a user is held: userRole is null whenever
\* user is null.
RoleImpliesUser == userRole # "" => user # NoUser

\* C24: after the provider mounts, and with every Supabase call settling,
\* loading becomes false.
LoadingEnds == <>(authLoading = FALSE)

LoadingEndedByFetch == authLoading = FALSE /\ lastFetch # NoFetch

\* C25: once isOfflineMode is true no step makes it false, and a signIn
\* called in offline mode takes the offline branch: it leaves the Supabase
\* session and the pending Supabase calls as they were.
OfflineModeIsMonotone ==
    [][/\ isOfflineMode => isOfflineMode'
       /\ (isOfflineMode /\ lastSignIn' # NoSignIn) =>
             /\ lastSignIn'.branch = "offline"
             /\ authSession' = authSession
             /\ pendingCalls' = pendingCalls]_vars

OfflineSignInAfterOnlineStart ==
    isOfflineMode /\ subscribed /\ lastSignIn.branch = "offline"

\* The addresses of the login form whose lower-cased text contains 'hr'.
AddressesWithHr ==
    {<<"H", "R", "@", "x">>, <<"c", "h", "r", "i", "s", "@", "x">>}

MetadataRole ==
    IF lastFetch.query # "throws" /\ IsRole(lastFetch.meta) THEN lastFetch.meta
    ELSE IF (lastFetch.query = "throws" \/ lastFetch.meta = "throws")
            /\ IsRole(lastFetch.retry)
    THEN lastFetch.retry
    ELSE ""

\* fetchUserRole ends with loading false and with the role of the user_roles
\* row, else the metadata role, else 'candidate'.
RoleByPrecedence ==
    /\ authLoading = FALSE
    /\ userRole \in {"candidate", "hr"}
    /\ userRole = lastFetch.role
    /\ userRole = IF IsRole(lastFetch.query) THEN lastFetch.query
                  ELSE IF MetadataRole # "" THEN MetadataRole
                  ELSE "candidate"

\* C27: a fetchUserRole run ends with loading false and the role taken by
\* precedence (row, metadata, 'candidate'); it switches to offline mode only
\* when no role was found and the user_roles query failed or a getUser call
\* threw.
FetchUserRoleOutcome ==
    lastFetch # NoFetch =>
        /\ RoleByPrecedence
        /\ lastFetch.wentOffline =>
              /\ isOfflineMode
              /\ ~IsRole(lastFetch.query) /\ MetadataRole = ""
              /\ \/ lastFetch.query \in {"error", "throws"}
                 \/ lastFetch.meta = "throws"

\* C27 as stated: the switch to offline mode happens only when the
\* user_roles query failed and no metadata role was available.
FetchUserRoleOutcomeAsStated ==
    lastFetch # NoFetch =>
        /\ RoleByPrecedence
        /\ lastFetch.wentOffline =>
              /\ lastFetch.query \in {"error", "throws"}
              /\ MetadataRole = ""

WentOfflineAfterEmptyQuery ==
    /\ lastFetch.wentOffline
    /\ lastFetch.query = "empty"
    /\ lastFetch.meta = "throws"
    /\ isOfflineMode

=============================================================================
